---------------------------- MODULE Spec2Model ----------------------------
(***************************************************************************)
(* Model of static/script.js: the submit handler of the keyword scanner    *)
(* page.  Strings are sequences of UTF-16 code units, each code unit being *)
(* a one-element TLA+ string; "U+0130", "U+0307" and "U+00A0" stand for    *)
(* the single code units with these code points.  The results container is *)
(* a sequence of DOM nodes: a text node is [text |-> chars], an element is *)
(* [tag |-> chars, className |-> chars, children |-> nodes] (an anchor     *)
(* also has href and target).                                              *)
(***************************************************************************)
EXTENDS Integers, Sequences, FiniteSets, TLC

(***************************************************************************)
(* Bounds of the model.                                                    *)
(***************************************************************************)
MaxResults == 2
MaxInFlight == 2

(***************************************************************************)
(* String literals of the source.                                          *)
(***************************************************************************)
ValidationMessage == <<"P","l","e","a","s","e"," ","f","i","l","l"," ","i","n"," ","b","o","t","h"," ","U","R","L"," ","a","n","d"," ","k","e","y","w","o","r","d"," ","f","i","e","l","d","s",".">>
ScanErrorMessage == <<"A","n"," ","e","r","r","o","r"," ","o","c","c","u","r","r","e","d"," ","w","h","i","l","e"," ","s","c","a","n","n","i","n","g"," ","d","o","c","u","m","e","n","t","s",".">>
FallbackMessage == <<"F","a","i","l","e","d"," ","t","o"," ","s","c","a","n"," ","d","o","c","u","m","e","n","t","s","."," ","P","l","e","a","s","e"," ","c","h","e","c","k"," ","t","h","e"," ","U","R","L"," ","a","n","d"," ","t","r","y"," ","a","g","a","i","n",".">>
NoResultsMessage == <<"N","o"," ","m","a","t","c","h","e","s"," ","f","o","u","n","d"," ","f","o","r"," ","t","h","e"," ","k","e","y","w","o","r","d"," ","i","n"," ","t","h","e"," ","s","c","a","n","n","e","d"," ","d","o","c","u","m","e","n","t","s",".">>
ErrorOpen == <<"<","d","i","v"," ","c","l","a","s","s","=","\"","e","r","r","o","r","\"",">">>
NoResultsOpen == <<"<","d","i","v"," ","c","l","a","s","s","=","\"","n","o","-","r","e","s","u","l","t","s","\"",">">>
DivClose == <<"<","/","d","i","v",">">>
KeywordOpen == <<"<","s","p","a","n"," ","c","l","a","s","s","=","\"","r","e","s","u","l","t","-","k","e","y","w","o","r","d","\"",">">>
SpanClose == <<"<","/","s","p","a","n",">">>
FoundPrefix == <<"F","o","u","n","d"," ">>
MatchWord == <<" ","m","a","t","c","h">>
PluralSuffix == <<"e","s">>
DivTag == <<"d","i","v">>
AnchorTag == <<"a">>
SpanTag == <<"s","p","a","n">>
ErrorClass == <<"e","r","r","o","r">>
NoResultsClass == <<"n","o","-","r","e","s","u","l","t","s">>
ResultsTitleClass == <<"r","e","s","u","l","t","s","-","t","i","t","l","e">>
ResultItemClass == <<"r","e","s","u","l","t","-","i","t","e","m">>
ResultUrlClass == <<"r","e","s","u","l","t","-","u","r","l">>
ResultExcerptClass == <<"r","e","s","u","l","t","-","e","x","c","e","r","p","t">>
ResultKeywordClass == <<"r","e","s","u","l","t","-","k","e","y","w","o","r","d">>
BlankTarget == <<"_","b","l","a","n","k">>

(***************************************************************************)
(* Messages of the exceptions the runtime raises.  Their text is chosen by *)
(* the engine; the ones below are those of V8.                             *)
(***************************************************************************)
FailedToFetch == <<"F","a","i","l","e","d"," ","t","o"," ","f","e","t","c","h">>
JsonSyntaxMessage == <<"U","n","e","x","p","e","c","t","e","d"," ","t","o","k","e","n"," ","<"," ","i","n"," ","J","S","O","N"," ","a","t"," ","p","o","s","i","t","i","o","n"," ","0">>
NullDetailMessage == <<"C","a","n","n","o","t"," ","r","e","a","d"," ","p","r","o","p","e","r","t","i","e","s"," ","o","f"," ","n","u","l","l"," ","(","r","e","a","d","i","n","g"," ","'","d","e","t","a","i","l","'",")">>
UndefinedLowerMessage == <<"C","a","n","n","o","t"," ","r","e","a","d"," ","p","r","o","p","e","r","t","i","e","s"," ","o","f"," ","u","n","d","e","f","i","n","e","d"," ","(","r","e","a","d","i","n","g"," ","'","t","o","L","o","w","e","r","C","a","s","e","'",")">>

(***************************************************************************)
(* String.prototype methods used by the handler.                           *)
(***************************************************************************)
WhiteSpace == {" ", "\t", "\n", "U+00A0"}

UpperLetters == <<"A","B","C","D","E","F","G","H","I","J","K","L","M","N","O","P","Q","R","S","T","U","V","W","X","Y","Z">>
LowerLetters == <<"a","b","c","d","e","f","g","h","i","j","k","l","m","n","o","p","q","r","s","t","u","v","w","x","y","z">>

IsLetter(c) ==
    \E k \in 1..26 : UpperLetters[k] = c \/ LowerLetters[k] = c

\* The lower-case mapping of one code unit.  U+0130 (capital I with dot
\* above) maps to the two code units U+0069 U+0307.
LowerOf(c) ==
    IF \E k \in 1..26 : UpperLetters[k] = c
    THEN <<LowerLetters[CHOOSE k \in 1..26 : UpperLetters[k] = c]>>
    ELSE IF c = "U+0130" THEN <<"i", "U+0307">>
    ELSE <<c>>

\* The mapping is applied code unit by code unit (the sequence is halved
\* to keep the evaluation shallow).
RECURSIVE toLowerCase(_)
toLowerCase(s) ==
    IF s = <<>> THEN <<>>
    ELSE IF Len(s) = 1 THEN LowerOf(s[1])
    ELSE toLowerCase(SubSeq(s, 1, Len(s) \div 2))
             \o toLowerCase(SubSeq(s, (Len(s) \div 2) + 1, Len(s)))

RECURSIVE trimStart(_)
trimStart(s) ==
    IF s # <<>> /\ Head(s) \in WhiteSpace THEN trimStart(Tail(s)) ELSE s

RECURSIVE trimEnd(_)
trimEnd(s) ==
    IF s # <<>> /\ s[Len(s)] \in WhiteSpace
    THEN trimEnd(SubSeq(s, 1, Len(s) - 1)) ELSE s

trimNone(s) == s

\* value.trim()
trim(s) == trimEnd(trimStart(s))

\* s.indexOf(t): the 0-based position of the first occurrence, or -1.
indexOf(s, t) ==
    LET hits == {i \in 0..(Len(s) - Len(t)) : SubSeq(s, i + 1, i + Len(t)) = t}
    IN  IF hits = {} THEN -1
        ELSE CHOOSE i \in hits : \A j \in hits : i <= j

Clamp(n, len) == IF n < 0 THEN 0 ELSE IF n > len THEN len ELSE n

\* s.substring(start, end): both ends are clamped to 0..length and swapped
\* when start > end.
substring(s, start, end) ==
    LET a == Clamp(start, Len(s))
        b == Clamp(end, Len(s))
        lo == IF a <= b THEN a ELSE b
        hi == IF a <= b THEN b ELSE a
    IN  SubSeq(s, lo + 1, hi)

\* s.substring(start)
substringFrom(s, start) == substring(s, start, Len(s))

RECURSIVE Digits(_)
Digits(n) ==
    LET d == <<"0","1","2","3","4","5","6","7","8","9">>
    IN  IF n < 10 THEN <<d[n + 1]>> ELSE Digits(n \div 10) \o <<d[(n % 10) + 1]>>

(***************************************************************************)
(* The DOM: serialisation of text (textContent -> innerHTML), the HTML     *)
(* fragment parser behind the innerHTML setter, and textContent.           *)
(***************************************************************************)
TextNode(s) == [text |-> s]

IsText(n) == "text" \in DOMAIN n

\* element.textContent = s : the children become one text node, or none
\* when s is the empty string.
SetTextContent(s) == IF s = <<>> THEN <<>> ELSE <<TextNode(s)>>

EscapeCharNone(c) == <<c>>

\* The escaping of one code unit of a text node.
EscapeChar(c) ==
    IF c = "&" THEN <<"&","a","m","p",";">>
    ELSE IF c = "<" THEN <<"&","l","t",";">>
    ELSE IF c = ">" THEN <<"&","g","t",";">>
    ELSE IF c = "U+00A0" THEN <<"&","n","b","s","p",";">>
    ELSE <<c>>

RECURSIVE SerializeText(_)
SerializeText(s) ==
    IF s = <<>> THEN <<>>
    ELSE IF Len(s) = 1 THEN EscapeChar(s[1])
    ELSE SerializeText(SubSeq(s, 1, Len(s) \div 2))
             \o SerializeText(SubSeq(s, (Len(s) \div 2) + 1, Len(s)))

\* function escapeHtml(text): a detached div gets the text as its
\* textContent and its innerHTML is read back.
escapeHtml(text) ==
    IF SetTextContent(text) = <<>> THEN <<>>
    ELSE SerializeText(SetTextContent(text)[1].text)

StartsWithAt(s, i, t) ==
    /\ i + Len(t) - 1 <= Len(s)
    /\ SubSeq(s, i, i + Len(t) - 1) = t

\* The position of the first ">" at or after i, 0 when there is none.
FindGt(s, i) ==
    LET hits == {j \in i..Len(s) : s[j] = ">"}
    IN  IF hits = {} THEN 0 ELSE CHOOSE j \in hits : \A k \in hits : j <= k

\* The character reference at position i (s[i] = "&"): the decoded code
\* unit and the number of code units consumed.
DecodeAt(s, i) ==
    IF StartsWithAt(s, i, <<"&","l","t",";">>) THEN [ch |-> "<", len |-> 4]
    ELSE IF StartsWithAt(s, i, <<"&","g","t",";">>) THEN [ch |-> ">", len |-> 4]
    ELSE IF StartsWithAt(s, i, <<"&","a","m","p",";">>) THEN [ch |-> "&", len |-> 5]
    ELSE IF StartsWithAt(s, i, <<"&","n","b","s","p",";">>) THEN [ch |-> "U+00A0", len |-> 6]
    ELSE [ch |-> s[i], len |-> 1]

\* The tag name of the tag text t (what stands between "<" or "</" and ">").
TagNameOf(t) ==
    LET sp == {k \in 1..Len(t) : t[k] \in WhiteSpace}
    IN  IF sp = {} THEN toLowerCase(t)
        ELSE toLowerCase(SubSeq(t, 1, (CHOOSE k \in sp : \A m \in sp : k <= m) - 1))

\* The value of the class attribute of the tag text t, "" when it has none.
ClassNameOf(t) ==
    LET attr == <<" ","c","l","a","s","s","=","\"">>
        hits == {k \in 1..Len(t) : StartsWithAt(t, k, attr)}
    IN  IF hits = {} THEN <<>>
        ELSE LET k == CHOOSE h \in hits : \A m \in hits : h <= m
                 from == k + Len(attr)
                 q == {m \in from..Len(t) : t[m] = "\""}
             IN  IF q = {} THEN <<>>
                 ELSE SubSeq(t, from, (CHOOSE m \in q : \A n \in q : m <= n) - 1)

\* The stack of open elements: frame 1 is the fragment itself.
AppendChild(frame, node) == [frame EXCEPT !.children = Append(@, node)]

AppendText(frame, t) ==
    LET ch == frame.children
    IN  IF ch # <<>> /\ IsText(ch[Len(ch)])
        THEN [frame EXCEPT !.children[Len(ch)] = TextNode(ch[Len(ch)].text \o t)]
        ELSE AppendChild(frame, TextNode(t))

\* The last position of the run of plain characters that starts at i.
RunEnd(s, i) ==
    LET hits == {j \in (i + 1)..Len(s) : s[j] \in {"<", "&"}}
    IN  IF hits = {} THEN Len(s) ELSE (CHOOSE j \in hits : \A k \in hits : j <= k) - 1

Pop(stack) ==
    LET n == Len(stack)
    IN  [SubSeq(stack, 1, n - 1) EXCEPT ![n - 1] = AppendChild(@, stack[n])]

RECURSIVE CloseTo(_, _)
CloseTo(stack, name) ==
    IF Len(stack) = 1 THEN stack
    ELSE IF stack[Len(stack)].tag = name THEN Pop(stack)
    ELSE CloseTo(Pop(stack), name)

RECURSIVE CloseAll(_)
CloseAll(stack) == IF Len(stack) = 1 THEN stack[1].children ELSE CloseAll(Pop(stack))

RECURSIVE ParseFrom(_, _, _)
ParseFrom(s, i, stack) ==
    IF i > Len(s) THEN CloseAll(stack)
    ELSE IF s[i] = "<" /\ i + 1 <= Len(s) /\ (IsLetter(s[i + 1]) \/ (s[i + 1] = "/" /\ i + 2 <= Len(s) /\ IsLetter(s[i + 2])))
    THEN LET j == FindGt(s, i)
         IN  IF j = 0 THEN CloseAll(stack)
             ELSE IF s[i + 1] = "/"
             THEN LET name == TagNameOf(SubSeq(s, i + 2, j - 1))
                  IN  IF \E k \in 2..Len(stack) : stack[k].tag = name
                      THEN ParseFrom(s, j + 1, CloseTo(stack, name))
                      ELSE ParseFrom(s, j + 1, stack)
             ELSE LET t == SubSeq(s, i + 1, j - 1)
                  IN  ParseFrom(s, j + 1, Append(stack,
                          [tag |-> TagNameOf(t), className |-> ClassNameOf(t), children |-> <<>>]))
    ELSE IF s[i] = "&"
    THEN LET d == DecodeAt(s, i)
         IN  ParseFrom(s, i + d.len, [stack EXCEPT ![Len(stack)] = AppendText(@, <<d.ch>>)])
    ELSE LET e == RunEnd(s, i)
         IN  ParseFrom(s, e + 1, [stack EXCEPT ![Len(stack)] = AppendText(@, SubSeq(s, i, e))])

\* element.innerHTML = html : the children the fragment parser builds.
ParseHTML(html) ==
    ParseFrom(html, 1, <<[tag |-> <<>>, className |-> <<>>, children |-> <<>>]>>)

RECURSIVE textContent(_)
textContent(nodes) ==
    IF nodes = <<>> THEN <<>>
    ELSE (IF IsText(Head(nodes)) THEN Head(nodes).text ELSE textContent(Head(nodes).children))
         \o textContent(Tail(nodes))

\* The elements of a node list and of their descendants, as
\* <<tag, className>> pairs.
RECURSIVE ElementsOf(_)
ElementsOf(nodes) ==
    IF nodes = <<>> THEN {}
    ELSE (IF IsText(Head(nodes)) THEN {}
          ELSE {<<Head(nodes).tag, Head(nodes).className>>} \cup ElementsOf(Head(nodes).children))
         \cup ElementsOf(Tail(nodes))

RECURSIVE CountElements(_)
CountElements(nodes) ==
    IF nodes = <<>> THEN 0
    ELSE (IF IsText(Head(nodes)) THEN 0 ELSE 1 + CountElements(Head(nodes).children))
         + CountElements(Tail(nodes))

(***************************************************************************)
(* What the user can type and what the scan service and the network can    *)
(* answer.                                                                 *)
(***************************************************************************)
UrlValues == {<<>>, <<" ">>, <<" ", "/", "d", "o", "c", "s", " ">>}

KeywordValues == {<<>>, <<" ", "\t">>, <<" ", "f", "o", "x">>, <<"<", "b", ">">>}

DocumentUrls == {<<"/", "a">>, <<"/", "<", "i", ">", "&">>}

Excerpts ==
    { <<"T", "h", "e", " ", "q", "u", "i", "c", "k", " ", "F", "o", "x", " ", "j", "u", "m", "p", "s">>,
      <<"a", "<", "B", ">", "f", "o", "x", "<", "/", "b", ">", "&", "l", "t", ";">>,
      <<"U+0130", " ", "f", "o", "x">>,
      <<"<", "i", ">", "d", "o", "g">> }

\* The result objects of a response; the service is not trusted, so an
\* object may come without its excerpt.
ResultObjects ==
    {[document_url |-> d, excerpt |-> e] : d \in DocumentUrls, e \in Excerpts}
        \cup {[document_url |-> d] : d \in DocumentUrls}

ResultArrays == UNION {[1..n -> ResultObjects] : n \in 0..MaxResults}

DetailValues == {<<>>, <<"b", "a", "d", " ", "u", "r", "l">>, <<"<", "b", ">", "x", "<", "/", "b", ">">>, <<"&", "l", "t", ";">>}

JsonNull == [jsonType |-> "null"]

\* A body is unparseable (response.json() rejects) or parses to a value.
ErrorBodies ==
    {[parsed |-> FALSE]}
        \cup {[parsed |-> TRUE, value |-> v] :
                v \in {JsonNull, [message |-> <<"n", "o">>]} \cup {[detail |-> d] : d \in DetailValues}}

OkBodies == {[parsed |-> FALSE]} \cup {[parsed |-> TRUE, value |-> a] : a \in ResultArrays}

Responses ==
    {[ok |-> FALSE, body |-> b] : b \in ErrorBodies}
        \cup {[ok |-> TRUE, body |-> b] : b \in OkBodies}

\* The message of the TypeError fetch() rejects with is implementation
\* defined and may be empty.
NetworkErrorMessages == {FailedToFetch, <<>>}

(***************************************************************************)
(* State.  pending holds the invocations of the submit handler suspended   *)
(* at an await; last records what the most recent handler step was given.  *)
(***************************************************************************)
VARIABLES urlInput, keywordInput, submitBtnDisabled, loadingActive,
          resultsDiv, pending, last

vars == <<urlInput, keywordInput, submitBtnDisabled, loadingActive,
          resultsDiv, pending, last>>

(***************************************************************************)
(* The functions of the script.                                            *)
(***************************************************************************)
setLoadingStuck(isLoading) ==
    IF isLoading
    THEN [loadingActive |-> TRUE, submitBtnDisabled |-> TRUE]
    ELSE [loadingActive |-> FALSE, submitBtnDisabled |-> submitBtnDisabled]

setLoadingNoDisable(isLoading) ==
    IF isLoading
    THEN [loadingActive |-> TRUE, submitBtnDisabled |-> FALSE]
    ELSE [loadingActive |-> FALSE, submitBtnDisabled |-> FALSE]

setLoading(isLoading) ==
    IF isLoading
    THEN [loadingActive |-> TRUE, submitBtnDisabled |-> TRUE]
    ELSE [loadingActive |-> FALSE, submitBtnDisabled |-> FALSE]

clearResultsKeep == resultsDiv

clearResults == ParseHTML(<<>>)

showError(message) == ParseHTML(ErrorOpen \o escapeHtml(message) \o DivClose)

ResultsTitleTextPlural(n) == FoundPrefix \o Digits(n) \o MatchWord \o PluralSuffix

\* `Found ${results.length} match${results.length > 1 ? 'es' : ''}`
ResultsTitleText(n) ==
    FoundPrefix \o Digits(n) \o MatchWord \o (IF n > 1 THEN PluralSuffix ELSE <<>>)

resultsTitle(results) ==
    [tag |-> DivTag, className |-> ResultsTitleClass,
     children |-> SetTextContent(ResultsTitleText(Len(results)))]

urlLink(result) ==
    [tag |-> AnchorTag, className |-> ResultUrlClass,
     href |-> result.document_url, target |-> BlankTarget,
     children |-> SetTextContent(result.document_url)]

\* The children of excerptDiv: the keyword highlighting.
excerptChildren(excerpt, keyword) ==
    LET normalizedKeyword == toLowerCase(keyword)
        normalizedExcerpt == toLowerCase(excerpt)
        keywordIndex == indexOf(normalizedExcerpt, normalizedKeyword)
    IN  IF keywordIndex # -1
        THEN LET beforeKeyword == substring(excerpt, 0, keywordIndex)
                 keywordText == substring(excerpt, keywordIndex, keywordIndex + Len(keyword))
                 afterKeyword == substringFrom(excerpt, keywordIndex + Len(keyword))
             IN  ParseHTML(escapeHtml(beforeKeyword)
                           \o KeywordOpen \o escapeHtml(keywordText) \o SpanClose
                           \o escapeHtml(afterKeyword))
        ELSE SetTextContent(excerpt)

resultItem(result, keyword) ==
    [tag |-> DivTag, className |-> ResultItemClass,
     children |-> << urlLink(result),
                     [tag |-> DivTag, className |-> ResultExcerptClass,
                      children |-> excerptChildren(result.excerpt, keyword)] >>]

\* results.forEach(...) from the i-th result on: the container after the
\* loop, or after the iteration that threw.
RECURSIVE forEachResult(_, _, _, _)
forEachResult(div, results, i, keyword) ==
    IF i > Len(results) THEN [div |-> div, threw |-> FALSE, message |-> <<>>]
    ELSE IF "excerpt" \notin DOMAIN results[i]
    THEN [div |-> div, threw |-> TRUE, message |-> UndefinedLowerMessage]
    ELSE forEachResult(Append(div, resultItem(results[i], keyword)), results, i + 1, keyword)

IsEmptyNever(results) == FALSE

\* results.length === 0
IsEmpty(results) == Len(results) = 0

displayResults(div, results, keyword) ==
    IF IsEmpty(results)
    THEN [div |-> ParseHTML(NoResultsOpen \o NoResultsMessage \o DivClose),
          threw |-> FALSE, message |-> <<>>]
    ELSE forEachResult(Append(div, resultsTitle(results)), results, 1, keyword)

ThrownOnStatusFallback(errorData) ==
    IF errorData = JsonNull THEN [message |-> NullDetailMessage]
    ELSE [message |-> FallbackMessage]

\* const errorData = await response.json();
\* throw new Error(errorData.detail || 'An error occurred ...');
ThrownOnStatus(errorData) ==
    IF errorData = JsonNull THEN [message |-> NullDetailMessage]
    ELSE IF "detail" \in DOMAIN errorData /\ errorData.detail # <<>>
    THEN [message |-> errorData.detail]
    ELSE [message |-> ScanErrorMessage]

CatchTextFallback(error) == FallbackMessage

\* error.message || 'Failed to scan documents. ...'
CatchText(error) ==
    IF error.message # <<>> THEN error.message ELSE FallbackMessage

\* The body of the try block from the point where response.json() settles:
\* the container it leaves and the exception it throws, if any.
TryBody(div, response, keyword) ==
    IF ~response.body.parsed
    THEN [div |-> div, threw |-> TRUE, message |-> JsonSyntaxMessage]
    ELSE IF ~response.ok
    THEN [div |-> div, threw |-> TRUE, message |-> ThrownOnStatus(response.body.value).message]
    ELSE displayResults(div, response.body.value, keyword)

\* catch (error) { showError(...) }
AfterCatch(outcome) ==
    IF outcome.threw THEN showError(CatchText(outcome)) ELSE outcome.div

Remove(seq, k) == SubSeq(seq, 1, k - 1) \o SubSeq(seq, k + 1, Len(seq))

(***************************************************************************)
(* Actions.                                                                *)
(***************************************************************************)
Init ==
    /\ urlInput = <<>>
    /\ keywordInput = <<>>
    /\ submitBtnDisabled = FALSE
    /\ loadingActive = FALSE
    /\ resultsDiv = <<>>
    /\ pending = <<>>
    /\ last = [kind |-> "none"]

TypeUrl(v) ==
    /\ urlInput' = v
    /\ UNCHANGED <<keywordInput, submitBtnDisabled, loadingActive, resultsDiv, pending, last>>

TypeKeyword(v) ==
    /\ keywordInput' = v
    /\ UNCHANGED <<urlInput, submitBtnDisabled, loadingActive, resultsDiv, pending, last>>

\* The submit event: the browser does not submit a form whose submit
\* button is disabled.
SubmitInvalid ==
    /\ ~submitBtnDisabled
    /\ trim(urlInput) = <<>> \/ trim(keywordInput) = <<>>
    /\ resultsDiv' = showError(ValidationMessage)
    /\ last' = [kind |-> "invalid", urlValue |-> urlInput, keywordValue |-> keywordInput]
    /\ UNCHANGED <<urlInput, keywordInput, submitBtnDisabled, loadingActive, pending>>

SubmitValid ==
    /\ ~submitBtnDisabled
    /\ Len(pending) < MaxInFlight
    /\ ~(trim(urlInput) = <<>> \/ trim(keywordInput) = <<>>)
    /\ loadingActive' = setLoading(TRUE).loadingActive
    /\ submitBtnDisabled' = setLoading(TRUE).submitBtnDisabled
    /\ resultsDiv' = clearResults
    /\ pending' = Append(pending, [url |-> trim(urlInput), keyword |-> trim(keywordInput),
                                   await |-> "fetch"])
    /\ last' = [kind |-> "submitted", urlValue |-> urlInput, keywordValue |-> keywordInput]
    /\ UNCHANGED <<urlInput, keywordInput>>

\* catch and finally, for the k-th suspended invocation.
Settle(k, outcome) ==
    /\ resultsDiv' = AfterCatch(outcome)
    /\ loadingActive' = setLoading(FALSE).loadingActive
    /\ submitBtnDisabled' = setLoading(FALSE).submitBtnDisabled
    /\ pending' = Remove(pending, k)
    /\ UNCHANGED <<urlInput, keywordInput>>

\* fetch() rejects: a network-level failure.
FetchReject(k, m) ==
    /\ pending[k].await = "fetch"
    /\ Settle(k, [div |-> resultsDiv, threw |-> TRUE, message |-> m])
    /\ last' = [kind |-> "rejected", keyword |-> pending[k].keyword, message |-> m]

\* fetch() resolves with a response; the handler awaits response.json().
FetchResolve(k, response) ==
    /\ pending[k].await = "fetch"
    /\ pending' = [pending EXCEPT ![k] = [url |-> @.url, keyword |-> @.keyword,
                                          await |-> "json", response |-> response]]
    /\ UNCHANGED <<urlInput, keywordInput, submitBtnDisabled, loadingActive, resultsDiv, last>>

\* response.json() settles and the handler runs to its end.
JsonSettle(k) ==
    /\ pending[k].await = "json"
    /\ Settle(k, TryBody(resultsDiv, pending[k].response, pending[k].keyword))
    /\ last' = [kind |-> "response", keyword |-> pending[k].keyword,
                response |-> pending[k].response]

Next ==
    \/ \E v \in UrlValues : TypeUrl(v)
    \/ \E v \in KeywordValues : TypeKeyword(v)
    \/ SubmitInvalid
    \/ SubmitValid
    \/ \E k \in 1..Len(pending), m \in NetworkErrorMessages : FetchReject(k, m)
    \/ \E k \in 1..Len(pending), r \in Responses : FetchResolve(k, r)
    \/ \E k \in 1..Len(pending) : JsonSettle(k)

Spec == Init /\ [][Next]_vars

(***************************************************************************)
(* Vocabulary of the properties.                                           *)
(***************************************************************************)
Blank(s) == \A i \in 1..Len(s) : s[i] \in WhiteSpace

Trimmed(s) == s # <<>> /\ s[1] \notin WhiteSpace /\ s[Len(s)] \notin WhiteSpace

Idle == pending = <<>>

\* The container holds one error div whose only child is the text m.
ErrorShown(m) ==
    resultsDiv = <<[tag |-> DivTag, className |-> ErrorClass, children |-> <<[text |-> m]>>]>>

SingleError ==
    /\ Len(resultsDiv) = 1
    /\ ~IsText(resultsDiv[1])
    /\ resultsDiv[1].tag = DivTag
    /\ resultsDiv[1].className = ErrorClass

IsElement(n, tag, className) == ~IsText(n) /\ n.tag = tag /\ n.className = className

OnlyText(nodes) == \A i \in 1..Len(nodes) : IsText(nodes[i])

Completed == last.kind \in {"rejected", "response"}

Answered == last.kind = "response"

FailureStatus == Answered /\ ~last.response.ok

JsonObject == FailureStatus /\ last.response.body.parsed /\ last.response.body.value # JsonNull

\* The last cycle received a success status and a parseable array.
GotResults == Answered /\ last.response.ok /\ last.response.body.parsed

Results == last.response.body.value

WellFormed(results) == \A i \in 1..Len(results) : "excerpt" \in DOMAIN results[i]

HandlerMarkup ==
    { <<DivTag, ErrorClass>>, <<DivTag, NoResultsClass>>, <<DivTag, ResultsTitleClass>>,
      <<DivTag, ResultItemClass>>, <<AnchorTag, ResultUrlClass>>,
      <<DivTag, ResultExcerptClass>>, <<SpanTag, ResultKeywordClass>> }

\* The i-th rendered item's link and excerpt div.
ItemLink(i) == resultsDiv[i + 1].children[1]

ItemExcerpt(i) == resultsDiv[i + 1].children[2]

Occurs(hay, needle) ==
    \E p \in 1..(Len(hay) - Len(needle) + 1) : SubSeq(hay, p, p + Len(needle) - 1) = needle

(***************************************************************************)
(* C1: a submit event whose url or keyword is blank after trimming sends   *)
(* no request and shows the validation message; every request sent carries *)
(* a trimmed, non-empty url and keyword.                                   *)
(***************************************************************************)
C1_ValidationGuardsRequest ==
    /\ \A k \in 1..Len(pending) : Trimmed(pending[k].url) /\ Trimmed(pending[k].keyword)
    /\ (last.kind \in {"invalid", "submitted"} /\ (Blank(last.urlValue) \/ Blank(last.keywordValue)))
          => (last.kind = "invalid" /\ pending = <<>> /\ ErrorShown(ValidationMessage))

C1_Witness ==
    /\ last.kind = "invalid"
    /\ last.urlValue = <<" ">>
    /\ ~Blank(last.keywordValue)
    /\ ErrorShown(ValidationMessage)
    /\ pending = <<>>

(***************************************************************************)
(* C2: once a submission cycle has completed, whatever its outcome, the    *)
(* submit control is enabled and the loading indicator is inactive; the    *)
(* same holds whenever no invocation is suspended (Idle).                  *)
(***************************************************************************)
C2_IdleAfterCycle ==
    (Idle \/ Completed) => (~submitBtnDisabled /\ ~loadingActive)

\* A cycle that ended by an exception thrown while rendering.
C2_Witness ==
    /\ GotResults
    /\ Len(Results) = 2
    /\ "excerpt" \in DOMAIN Results[1]
    /\ "excerpt" \notin DOMAIN Results[2]
    /\ ~submitBtnDisabled
    /\ ~loadingActive

(***************************************************************************)
(* C3 as stated: whenever a submission fails and no service-provided       *)
(* detail is available (failure status with a JSON body without detail,    *)
(* failure status with an unparseable body, network failure), the error    *)
(* text shown is the generic fallback message.                             *)
(***************************************************************************)
C3_FallbackOnEveryDetaillessFailure ==
    (\/ last.kind = "rejected"
     \/ FailureStatus /\ ~last.response.body.parsed
     \/ JsonObject /\ "detail" \notin DOMAIN last.response.body.value)
        => ErrorShown(FallbackMessage)

(***************************************************************************)
(* C3 amended: a failure status whose JSON object body has no detail, or   *)
(* an empty one, shows "An error occurred while scanning documents."; a    *)
(* failure status with an unparseable body and a network failure show the  *)
(* message of the exception raised, and the generic fallback message only  *)
(* when that message is empty.                                             *)
(***************************************************************************)
C3_ErrorTextWithoutDetail ==
    /\ last.kind = "rejected"
          => ErrorShown(IF last.message # <<>> THEN last.message ELSE FallbackMessage)
    /\ (FailureStatus /\ ~last.response.body.parsed) => ErrorShown(JsonSyntaxMessage)
    /\ (JsonObject /\ ("detail" \notin DOMAIN last.response.body.value
                        \/ last.response.body.value.detail = <<>>))
          => ErrorShown(ScanErrorMessage)

C3_Witness ==
    /\ JsonObject
    /\ "detail" \notin DOMAIN last.response.body.value
    /\ ErrorShown(ScanErrorMessage)

C5_UntrustedTextIsLiteral ==
    /\ ElementsOf(resultsDiv) \subseteq HandlerMarkup
    /\ \A i \in 1..Len(resultsDiv) :
          /\ ~IsText(resultsDiv[i])
          /\ resultsDiv[i].className = ErrorClass => OnlyText(resultsDiv[i].children)
          /\ resultsDiv[i].className = ResultItemClass =>
                /\ Len(resultsDiv[i].children) = 2
                /\ OnlyText(resultsDiv[i].children[1].children)
                /\ CountElements(resultsDiv[i].children[2].children) <= 1
                /\ \A j \in 1..Len(resultsDiv[i].children[2].children) :
                      LET n == resultsDiv[i].children[2].children[j]
                      IN  IsText(n) \/ (IsElement(n, SpanTag, ResultKeywordClass)
                                          /\ OnlyText(n.children))
    /\ (GotResults /\ WellFormed(Results)) =>
          \A i \in 1..Len(Results) :
              /\ textContent(<<ItemLink(i)>>) = Results[i].document_url
              /\ textContent(<<ItemExcerpt(i)>>) = Results[i].excerpt

\* An excerpt full of markup characters, rendered with a highlight.
C5_Witness ==
    /\ GotResults
    /\ Len(Results) >= 1
    /\ WellFormed(Results)
    /\ Results[1].excerpt = <<"a", "<", "B", ">", "f", "o", "x", "<", "/", "b", ">", "&", "l", "t", ";">>
    /\ Results[1].document_url = <<"/", "<", "i", ">", "&">>
    /\ last.keyword = <<"f", "o", "x">>
    /\ CountElements(ItemExcerpt(1).children) = 1

(***************************************************************************)
(* C6 as stated: for every rendered excerpt and keyword, if the lower-     *)
(* cased keyword occurs in the lower-cased excerpt, the excerpt div holds  *)
(* before, one highlight span around match, and after, where the three are *)
(* slices of the excerpt that concatenate to it, match has the keyword's   *)
(* length, equals the keyword case-insensitively and starts at the first   *)
(* such place; otherwise the div holds the excerpt alone, unhighlighted.   *)
(***************************************************************************)
HighlightSpan(m) ==
    [tag |-> SpanTag, className |-> ResultKeywordClass, children |-> SetTextContent(m)]

IsMatchAt(e, k, a) ==
    /\ a + Len(k) <= Len(e)
    /\ toLowerCase(SubSeq(e, a + 1, a + Len(k))) = toLowerCase(k)

HighlightedAsClaimed(children, e, k) ==
    IF Occurs(toLowerCase(e), toLowerCase(k))
    THEN \E a \in 0..Len(e) :
            /\ IsMatchAt(e, k, a)
            /\ \A b \in 0..(a - 1) : ~IsMatchAt(e, k, b)
            /\ children = SetTextContent(SubSeq(e, 1, a))
                            \o <<HighlightSpan(SubSeq(e, a + 1, a + Len(k)))>>
                            \o SetTextContent(SubSeq(e, a + Len(k) + 1, Len(e)))
    ELSE children = SetTextContent(e)

C6_HighlightFirstMatch ==
    (GotResults /\ WellFormed(Results)) =>
        \A i \in 1..Len(Results) :
            HighlightedAsClaimed(ItemExcerpt(i).children, Results[i].excerpt, last.keyword)

(***************************************************************************)
(* C7: after a successful response with N >= 1 results the container holds *)
(* the header "Found 1 match" (N = 1) or "Found N matches" (N > 1) and     *)
(* then exactly N items, the i-th showing the i-th result's document_url   *)
(* (as link target and link text) and excerpt.                             *)
(***************************************************************************)
ExpectedTitle(n) ==
    IF n = 1 THEN <<"F", "o", "u", "n", "d", " ", "1", " ", "m", "a", "t", "c", "h">>
    ELSE <<"F", "o", "u", "n", "d", " ">> \o Digits(n) \o <<" ", "m", "a", "t", "c", "h", "e", "s">>

C7_HeaderAndItemsInOrder ==
    (GotResults /\ Len(Results) >= 1 /\ WellFormed(Results)) =>
        /\ Len(resultsDiv) = Len(Results) + 1
        /\ resultsDiv[1] = [tag |-> DivTag, className |-> ResultsTitleClass,
                            children |-> <<[text |-> ExpectedTitle(Len(Results))]>>]
        /\ \A i \in 1..Len(Results) :
              /\ IsElement(resultsDiv[i + 1], DivTag, ResultItemClass)
              /\ Len(resultsDiv[i + 1].children) = 2
              /\ IsElement(ItemLink(i), AnchorTag, ResultUrlClass)
              /\ ItemLink(i).href = Results[i].document_url
              /\ ItemLink(i).children = <<[text |-> Results[i].document_url]>>
              /\ IsElement(ItemExcerpt(i), DivTag, ResultExcerptClass)
              /\ textContent(ItemExcerpt(i).children) = Results[i].excerpt

C7_Witness ==
    /\ GotResults
    /\ Len(Results) = 2
    /\ WellFormed(Results)
    /\ Results[1] # Results[2]
    /\ Len(resultsDiv) = 3
    /\ textContent(<<resultsDiv[1]>>) = <<"F", "o", "u", "n", "d", " ", "2", " ", "m", "a", "t", "c", "h", "e", "s">>

(***************************************************************************)
(* C8: after a successful response with an empty array the container holds *)
(* the "no matches found" message alone: no header, no item.               *)
(***************************************************************************)
C8_EmptyArrayShowsNoMatches ==
    (GotResults /\ Len(Results) = 0) =>
        resultsDiv = <<[tag |-> DivTag, className |-> NoResultsClass,
                        children |-> <<[text |-> NoResultsMessage]>>]>>

C8_Witness ==
    /\ GotResults
    /\ Len(Results) = 0
    /\ Len(resultsDiv) = 1
    /\ resultsDiv[1].className = NoResultsClass

(***************************************************************************)
(* C9: whenever no cycle is under way the container holds the output of    *)
(* the last cycle alone: nothing before the first one, the validation      *)
(* message, one error message (also when rendering failed part-way), the   *)
(* no-matches message, or one header followed by one item per result.      *)
(***************************************************************************)
C9_ContainerHoldsLastCycleOnly ==
    Idle =>
        /\ last.kind \in {"none", "invalid", "rejected", "response"}
        /\ last.kind = "none" => resultsDiv = <<>>
        /\ last.kind = "invalid" => ErrorShown(ValidationMessage)
        /\ last.kind = "rejected" => SingleError
        /\ (Answered /\ ~GotResults) => SingleError
        /\ (GotResults /\ ~WellFormed(Results)) => SingleError
        /\ (GotResults /\ Len(Results) = 0) =>
              (Len(resultsDiv) = 1 /\ IsElement(resultsDiv[1], DivTag, NoResultsClass))
        /\ (GotResults /\ Len(Results) >= 1 /\ WellFormed(Results)) =>
              /\ Len(resultsDiv) = Len(Results) + 1
              /\ IsElement(resultsDiv[1], DivTag, ResultsTitleClass)
              /\ \A i \in 2..Len(resultsDiv) : IsElement(resultsDiv[i], DivTag, ResultItemClass)

\* Rendering failed at the second result, after the header and the first
\* item had been appended.
C9_Witness ==
    /\ Idle
    /\ GotResults
    /\ Len(Results) = 2
    /\ "excerpt" \in DOMAIN Results[1]
    /\ "excerpt" \notin DOMAIN Results[2]
    /\ ErrorShown(UndefinedLowerMessage)

(***************************************************************************)
(* C10: while a request is in flight the submit control is disabled and    *)
(* the loading indicator active, and at most one request is in flight; a   *)
(* valid submission has issued exactly one request, with the container     *)
(* cleared, and a finished cycle leaves no request behind (no retry).      *)
(***************************************************************************)
C10_OneRequestInFlight ==
    /\ Len(pending) <= 1
    /\ pending # <<>> => (submitBtnDisabled /\ loadingActive)
    /\ last.kind = "submitted" =>
          /\ Len(pending) = 1
          /\ resultsDiv = <<>>
          /\ ~Blank(last.urlValue)
          /\ ~Blank(last.keywordValue)
    /\ last.kind \in {"none", "invalid", "rejected", "response"} => pending = <<>>

C10_Witness ==
    /\ Len(pending) = 1
    /\ pending[1].await = "json"
    /\ submitBtnDisabled
    /\ loadingActive
    /\ resultsDiv = <<>>

=============================================================================
